---- MODULE Spec2Model ----
(***************************************************************************)
(* Model of the Jobly backend: the partial-update helper                   *)
(* (helpers/sql.js), the Company and Job models (models/company.js,        *)
(* models/job.js), the storage they issue their statements to, the         *)
(* authorization middleware (middleware/auth.js) and the jobs router.      *)
(*                                                                         *)
(* SQL text is modelled as a sequence of tokens: an assignment             *)
(* `"col"=$n` is the token [col |-> col, ph |-> n] and the ", " that       *)
(* join() puts between two assignments is the token Comma.  A filter       *)
(* predicate `(col op $n)` is the token [col, op, ph] and " AND " is the   *)
(* token AndTok.  Storage executes a statement by reading these tokens.    *)
(***************************************************************************)
EXTENDS Integers, Sequences, FiniteSets, TLC

VARIABLES companies, jobs, nextId, ret, calls

vars == <<companies, jobs, nextId, ret, calls>>

(***************************************************************************)
(* Bounds of the model.                                                    *)
(***************************************************************************)
\* most keys of an update payload
MaxKeys == 2
\* most keys of the filter parameters of a findAll call
MaxFilterKeys == 3
\* number of ids the jobs id sequence hands out
MaxId == 2
\* number of create calls that may be in flight at once
MaxCalls == 2

(***************************************************************************)
(* Generic helpers.                                                        *)
(***************************************************************************)
Range(s) == {s[i] : i \in DOMAIN s}

\* the key/value pairs of a JS object, in insertion order: <<[k, v], ...>>
Keys(obj) == [i \in DOMAIN obj |-> obj[i].k]

Values(obj) == [i \in DOMAIN obj |-> obj[i].v]

HasKey(obj, key) == \E i \in DOMAIN obj : obj[i].k = key

DistinctKeys(obj) == \A i, j \in DOMAIN obj : obj[i].k = obj[j].k => i = j

\* every object of at most n keys whose pairs are taken from kv
Objects(kv, n) ==
  {o \in UNION {[1..m -> kv] : m \in 0..n} : DistinctKeys(o)}

\* Array.prototype.join: the elements with sep between two neighbours
RECURSIVE Join(_, _)
Join(arr, sep) ==
  IF Len(arr) = 0 THEN <<>>
  ELSE IF Len(arr) = 1 THEN <<arr[1]>>
  ELSE <<arr[1], sep>> \o Join(Tail(arr), sep)

(***************************************************************************)
(* Text and JavaScript values.  A text that the program compares, matches  *)
(* or parses is a sequence of characters.  A JavaScript value whose type   *)
(* matters (a filter parameter: a number in a direct call, a string in a   *)
(* query string) is a record [t, n, s]: its type, its number, its text.    *)
(***************************************************************************)
\* the characters of the model, in code unit order
Alphabet ==
  <<"%", "0", "1", "2", "3", "4", "5", "6", "7", "8", "9", "A", "B", "N", "_",
    "a", "b", "e", "f", "l", "n", "r", "s", "t", "u", "y">>

Code(c) == CHOOSE i \in DOMAIN Alphabet : Alphabet[i] = c

DigitChars == <<"0", "1", "2", "3", "4", "5", "6", "7", "8", "9">>

IsDigit(c) == c \in Range(DigitChars)

DigitValue(c) == (CHOOSE i \in DOMAIN DigitChars : DigitChars[i] = c) - 1

Num(n) == [t |-> "number", n |-> n, s |-> <<>>]

Str(s) == [t |-> "string", n |-> 0, s |-> s]

Bool(b) == [t |-> "boolean", n |-> IF b THEN 1 ELSE 0, s |-> <<>>]

Undefined == [t |-> "undefined", n |-> 0, s |-> <<>>]

\* the number NaN
NaN == [t |-> "NaN", n |-> 0, s |-> <<>>]

\* obj[key]: undefined when the object has no such key
Get(obj, key) ==
  IF HasKey(obj, key)
  THEN obj[CHOOSE i \in DOMAIN obj : obj[i].k = key].v
  ELSE Undefined

\* a < b on texts: by code units, a proper prefix first
RECURSIVE TextLess(_, _)
TextLess(a, b) ==
  IF b = <<>> THEN FALSE
  ELSE IF a = <<>> THEN TRUE
  ELSE IF Code(Head(a)) # Code(Head(b)) THEN Code(Head(a)) < Code(Head(b))
  ELSE TextLess(Tail(a), Tail(b))

\* the decimal digits of a natural number
RECURSIVE NatToText(_)
NatToText(n) ==
  IF n < 10 THEN <<DigitChars[n + 1]>>
  ELSE Append(NatToText(n \div 10), DigitChars[(n % 10) + 1])

\* the number a text of digits denotes
RECURSIVE DigitsToNat(_)
DigitsToNat(digits) ==
  IF digits = <<>> THEN 0
  ELSE 10 * DigitsToNat(SubSeq(digits, 1, Len(digits) - 1))
         + DigitValue(digits[Len(digits)])

\* the longest prefix of a text that consists of digits
RECURSIVE LeadingDigits(_)
LeadingDigits(text) ==
  IF text = <<>> \/ ~IsDigit(Head(text)) THEN <<>>
  ELSE <<Head(text)>> \o LeadingDigits(Tail(text))

\* String(v), as a template literal applies it
StringOf(v) ==
  CASE v.t = "number" -> NatToText(v.n)
    [] v.t = "string" -> v.s
    [] v.t = "boolean" -> IF v.n = 1 THEN <<"t", "r", "u", "e">>
                          ELSE <<"f", "a", "l", "s", "e">>
    [] v.t = "NaN" -> <<"N", "a", "N">>
    [] OTHER -> <<"u", "n", "d", "e", "f">>

\* Number(v), as a comparison of a non-string operand applies it
ToNumber(v) ==
  CASE v.t = "number" -> v
    [] v.t = "boolean" -> Num(v.n)
    [] v.t = "string" ->
         IF v.s = <<>> THEN Num(0)
         ELSE IF LeadingDigits(v.s) = v.s THEN Num(DigitsToNat(v.s))
         ELSE NaN
    [] OTHER -> NaN

\* parseInt(v): the leading digits of String(v), NaN when there are none
ParseInt(v) ==
  LET digits == LeadingDigits(StringOf(v))
  IN IF digits = <<>> THEN NaN ELSE Num(DigitsToNat(digits))

\* a > b: two strings are compared as texts, anything else as numbers, and
\* a comparison with NaN is false
GreaterThan(a, b) ==
  IF a.t = "string" /\ b.t = "string"
  THEN TextLess(b.s, a.s)
  ELSE /\ ToNumber(a).t = "number"
       /\ ToNumber(b).t = "number"
       /\ ToNumber(a).n > ToNumber(b).n

(***************************************************************************)
(* helpers/sql.js                                                          *)
(***************************************************************************)
Comma == [col |-> ", ", ph |-> 0]

\* what a template literal writes for the properties every object literal
\* inherits from Object.prototype
ObjectPrototype ==
  [constructor |-> "function Object() { [native code] }",
   toString |-> "function toString() { [native code] }",
   hasOwnProperty |-> "function hasOwnProperty() { [native code] }"]

\* jsToSql[colName] || colName: the property lookup finds the mapping's own
\* entry, else the inherited property of that name; a missing or empty entry
\* falls back to the key
ColName(jsToSql, colName) ==
  IF colName \in DOMAIN jsToSql
  THEN IF jsToSql[colName] # "" THEN jsToSql[colName] ELSE colName
  ELSE IF colName \in DOMAIN ObjectPrototype
  THEN ObjectPrototype[colName]
  ELSE colName

\* the placeholders numbered from 0
ColsZeroBased(keys, jsToSql) ==
  [idx \in DOMAIN keys |-> [col |-> ColName(jsToSql, keys[idx]), ph |-> idx - 1]]

\* keys.map((colName, idx) => `"${jsToSql[colName] || colName}"=$${idx + 1}`)
Cols(keys, jsToSql) ==
  [idx \in DOMAIN keys |-> [col |-> ColName(jsToSql, keys[idx]), ph |-> idx]]

\* the helper writing a number of the payload into the text in place of its
\* placeholder
sqlForPartialUpdateInlined(dataToUpdate, jsToSql) ==
  LET keys == Keys(dataToUpdate)
      cols == Cols(keys, jsToSql)
      inlined == [idx \in DOMAIN cols |->
                    IF keys[idx] \in {"age", "numEmployees"}
                    THEN [col |-> cols[idx].col, ph |-> dataToUpdate[idx].v]
                    ELSE cols[idx]]
  IN IF Len(keys) = 0
     THEN [threw |-> "BadRequestError", setCols |-> <<>>, values |-> <<>>]
     ELSE [threw |-> "none",
           setCols |-> Join(inlined, Comma),
           values |-> Values(dataToUpdate)]

\* the helper without its guard against an empty payload
sqlForPartialUpdateUnguarded(dataToUpdate, jsToSql) ==
  [threw |-> "none",
   setCols |-> Join(Cols(Keys(dataToUpdate), jsToSql), Comma),
   values |-> Values(dataToUpdate)]

sqlForPartialUpdate(dataToUpdate, jsToSql) ==
  LET keys == Keys(dataToUpdate)
  IN IF Len(keys) = 0
     THEN [threw |-> "BadRequestError", setCols |-> <<>>, values |-> <<>>]
     ELSE [threw |-> "none",
           setCols |-> Join(Cols(keys, jsToSql), Comma),
           values |-> Values(dataToUpdate)]

(***************************************************************************)
(* Storage: the companies and jobs tables and the statements the models    *)
(* issue to them through db.query.  A row is a record over the table's     *)
(* column names; handle and id are the primary keys.                       *)
(***************************************************************************)
CompanyColumns == {"handle", "name", "description", "num_employees", "logo_url"}

JobColumns == {"id", "title", "salary", "equity", "company_handle"}

CompanyRow(f) ==
  [handle |-> f["handle"], name |-> f["name"], description |-> f["description"],
   num_employees |-> f["num_employees"], logo_url |-> f["logo_url"]]

JobRow(f) ==
  [id |-> f["id"], title |-> f["title"], salary |-> f["salary"],
   equity |-> f["equity"], company_handle |-> f["company_handle"]]

\* RETURNING handle, name, description, num_employees AS "numEmployees", ...
CompanyOut(r) ==
  [handle |-> r.handle, name |-> r.name, description |-> r.description,
   numEmployees |-> r.num_employees, logoUrl |-> r.logo_url]

\* RETURNING id, title, salary, equity, company_handle AS "companyHandle"
JobOut(r) ==
  [id |-> r.id, title |-> r.title, salary |-> r.salary, equity |-> r.equity,
   companyHandle |-> r.company_handle]

\* the assignments of a SET fragment: the tokens between the commas
Assignments(setCols) ==
  [i \in 1..((Len(setCols) + 1) \div 2) |-> setCols[2 * i - 1]]

\* the UPDATE without its WHERE: every row of the table is assigned
ExecUpdateEveryRow(table, columns, pk, setCols, wherePh, params) ==
  LET asg == Assignments(setCols)
      Row(f) == IF pk = "handle" THEN CompanyRow(f) ELSE JobRow(f)
      NewRow(r) ==
        Row([c \in columns |->
               IF \E i \in DOMAIN asg : asg[i].col = c
               THEN params[(CHOOSE a \in Range(asg) : a.col = c).ph]
               ELSE r[c]])
      changed == {NewRow(r) : r \in table}
      malformed ==
        \/ \E i \in DOMAIN asg : asg[i].col \notin columns
        \/ \E i, j \in DOMAIN asg : i # j /\ asg[i].col = asg[j].col
  IN IF malformed
     THEN [err |-> TRUE, table |-> table, rows |-> {}]
     ELSE [err |-> FALSE, table |-> changed, rows |-> changed]

\* UPDATE <table> SET <setCols> WHERE <pk> = $<wherePh> RETURNING ...
\* err: the statement is rejected (unknown column, column assigned twice,
\* duplicate key) and changes nothing; rows: the rows RETURNING yields.
ExecUpdate(table, columns, pk, setCols, wherePh, params) ==
  LET asg == Assignments(setCols)
      Row(f) == IF pk = "handle" THEN CompanyRow(f) ELSE JobRow(f)
      key == params[wherePh]
      target == {r \in table : r[pk] = key}
      NewRow(r) ==
        Row([c \in columns |->
               IF \E i \in DOMAIN asg : asg[i].col = c
               THEN params[(CHOOSE a \in Range(asg) : a.col = c).ph]
               ELSE r[c]])
      changed == {NewRow(r) : r \in target}
      malformed ==
        \/ \E i \in DOMAIN asg : asg[i].col \notin columns
        \/ \E i, j \in DOMAIN asg : i # j /\ asg[i].col = asg[j].col
      duplicate ==
        \E n \in changed : \E o \in table \ target : n[pk] = o[pk]
  IN IF malformed \/ duplicate
     THEN [err |-> TRUE, table |-> table, rows |-> {}]
     ELSE [err |-> FALSE, table |-> (table \ target) \cup changed, rows |-> changed]

\* DELETE FROM <table> WHERE <pk> = $1 RETURNING <pk>
ExecDelete(table, pk, key) ==
  LET target == {r \in table : r[pk] = key}
  IN [table |-> table \ target, rows |-> target]

\* INSERT INTO <table> ... RETURNING ...: rejected on a duplicate key
ExecInsert(table, pk, row) ==
  IF \E o \in table : o[pk] = row[pk]
  THEN [err |-> TRUE, table |-> table, rows |-> {}]
  ELSE [err |-> FALSE, table |-> table \cup {row}, rows |-> {row}]

(***************************************************************************)
(* Storage: SELECT ... FROM <table> [WHERE ...] ORDER BY <column>.         *)
(***************************************************************************)
WhereTok == [col |-> "", op |-> "WHERE", ph |-> 0]

AndTok == [col |-> "", op |-> " AND ", ph |-> 0]

\* the NULL of a column, and the NUMERIC texts of the equity column with the
\* thousandths they denote
Null == "NULL"

Thousandths(text) == IF text = "0" THEN 0 ELSE 500

\* the lower case of a character
Lower(c) == IF c = "A" THEN "a" ELSE IF c = "B" THEN "b" ELSE c

LowerText(text) == [i \in DOMAIN text |-> Lower(text[i])]

\* text LIKE pattern: % matches any run of characters, _ any one character
RECURSIVE Like(_, _)
Like(text, pattern) ==
  IF pattern = <<>> THEN text = <<>>
  ELSE IF Head(pattern) = "%"
  THEN Like(text, Tail(pattern)) \/ (text # <<>> /\ Like(Tail(text), pattern))
  ELSE /\ text # <<>>
       /\ Head(pattern) = "_" \/ Head(pattern) = Head(text)
       /\ Like(Tail(text), Tail(pattern))

\* the predicates of a WHERE fragment: the tokens after WHERE, between the ANDs
Predicates(filterStatement) ==
  [i \in 1..(Len(filterStatement) \div 2) |-> filterStatement[2 * i]]

\* (col ILIKE $ph), (col > $ph), (col < $ph) on a row; a comparison with
\* NULL is not true
Holds(r, p, params) ==
  CASE p.op = "ILIKE" ->
         Like(LowerText(r[p.col]), LowerText(params[p.ph].s))
    [] p.col = "equity" ->
         /\ r[p.col] # Null
         /\ IF p.op = ">" THEN Thousandths(r[p.col]) > 1000 * params[p.ph].n
            ELSE Thousandths(r[p.col]) < 1000 * params[p.ph].n
    [] OTHER ->
         IF p.op = ">" THEN r[p.col] > params[p.ph].n
         ELSE r[p.col] < params[p.ph].n

\* err: a parameter that is no number is bound to a numeric comparison;
\* rows: the rows that satisfy every predicate
ExecSelect(table, filterStatement, params) ==
  LET preds == Predicates(filterStatement)
      malformed ==
        \E i \in DOMAIN preds :
          preds[i].op # "ILIKE" /\ params[preds[i].ph].t # "number"
  IN IF malformed
     THEN [err |-> TRUE, rows |-> {}]
     ELSE [err |-> FALSE,
           rows |-> {r \in table : \A i \in DOMAIN preds : Holds(r, preds[i], params)}]

\* ORDER BY col: every arrangement of the rows that ascends on the column
Ordered(rows, col) ==
  {o \in [1..Cardinality(rows) -> rows] :
     /\ \A i, j \in DOMAIN o : o[i] = o[j] => i = j
     /\ \A i, j \in DOMAIN o : i < j => ~TextLess(o[j][col], o[i][col])}

(***************************************************************************)
(* models/company.js.  Each method is an operator from the tables and its  *)
(* arguments to its outcome: status ("ok" or the error thrown), val (the   *)
(* value returned), queries (the number of db.query calls issued) and the  *)
(* table as the method leaves it.                                          *)
(***************************************************************************)
\* what a method that throws, or returns nothing, yields
NoVal == [undefined |-> TRUE]

\* the duplicate check made on the name
CompanyCreateByName(cs, data) ==
  LET duplicateCheck == {r \in cs : r.name = data.name}
      row == [handle |-> data.handle, name |-> data.name,
              description |-> data.description,
              num_employees |-> data.numEmployees, logo_url |-> data.logoUrl]
      result == ExecInsert(cs, "handle", row)
  IN IF duplicateCheck # {}
     THEN [status |-> "BadRequestError", val |-> NoVal, queries |-> 1, table |-> cs]
     ELSE IF result.err
     THEN [status |-> "DbError", val |-> NoVal, queries |-> 2, table |-> cs]
     ELSE [status |-> "ok", val |-> CompanyOut(row), queries |-> 2,
           table |-> result.table]

CompanyCreate(cs, data) ==
  LET duplicateCheck == {r \in cs : r.handle = data.handle}
      row == [handle |-> data.handle, name |-> data.name,
              description |-> data.description,
              num_employees |-> data.numEmployees, logo_url |-> data.logoUrl]
      result == ExecInsert(cs, "handle", row)
  IN IF duplicateCheck # {}
     THEN [status |-> "BadRequestError", val |-> NoVal, queries |-> 1, table |-> cs]
     ELSE IF result.err
     THEN [status |-> "DbError", val |-> NoVal, queries |-> 2, table |-> cs]
     ELSE [status |-> "ok", val |-> CompanyOut(row), queries |-> 2,
           table |-> result.table]

\* the message of the error thrown for a filter key that is not recognized
InvalidFilter(key) == [text |-> "Invalid filter parameter: ", key |-> key]

RangeMessage == [text |-> "minEmployees must be less than maxEmployees", key |-> ""]

NoMessage == [text |-> "", key |-> ""]

\* the loop without its final else: a key that is no filter is taken for the
\* last filter
CompanyFilterNoElse(queryKeys, queryValues) ==
  LET Pred(i) ==
        CASE queryKeys[i] = "name" -> [col |-> "name", op |-> "ILIKE", ph |-> i]
          [] queryKeys[i] = "minEmployees" ->
               [col |-> "num_employees", op |-> ">", ph |-> i]
          [] OTHER -> [col |-> "num_employees", op |-> "<", ph |-> i]
      Val(i) ==
        IF queryKeys[i] = "name"
        THEN Str(<<"%">> \o StringOf(queryValues[i]) \o <<"%">>)
        ELSE ParseInt(queryValues[i])
  IN [threw |-> FALSE, message |-> NoMessage,
      filterSqlArr |-> [i \in DOMAIN queryKeys |-> Pred(i)],
      filterVals |-> [i \in DOMAIN queryKeys |-> Val(i)]]

\* the loop over queryKeys: one predicate and one value per key, or the error
\* thrown at the first key that is not a filter
CompanyFilter(queryKeys, queryValues) ==
  LET Known(i) == queryKeys[i] \in {"name", "minEmployees", "maxEmployees"}
      unknown == {i \in DOMAIN queryKeys : ~Known(i)}
      first == CHOOSE i \in unknown : \A j \in unknown : i <= j
      Pred(i) ==
        CASE queryKeys[i] = "name" -> [col |-> "name", op |-> "ILIKE", ph |-> i]
          [] queryKeys[i] = "minEmployees" ->
               [col |-> "num_employees", op |-> ">", ph |-> i]
          [] OTHER -> [col |-> "num_employees", op |-> "<", ph |-> i]
      Val(i) ==
        IF queryKeys[i] = "name"
        THEN Str(<<"%">> \o StringOf(queryValues[i]) \o <<"%">>)
        ELSE ParseInt(queryValues[i])
  IN IF unknown # {}
     THEN [threw |-> TRUE, message |-> InvalidFilter(queryKeys[first]),
           filterSqlArr |-> <<>>, filterVals |-> <<>>]
     ELSE [threw |-> FALSE, message |-> NoMessage,
           filterSqlArr |-> [i \in DOMAIN queryKeys |-> Pred(i)],
           filterVals |-> [i \in DOMAIN queryKeys |-> Val(i)]]

\* WHERE written whether or not there is a parameter
FilterStatementAlwaysWhere(filterSqlArr) ==
  <<WhereTok>> \o Join(filterSqlArr, AndTok)

\* the predicates each followed by AND
FilterStatementDangling(filterSqlArr) ==
  IF Len(filterSqlArr) = 0 THEN <<>>
  ELSE <<WhereTok>> \o Join(filterSqlArr, AndTok) \o <<AndTok>>

\* filterStatement = "WHERE" followed by the predicates joined with AND, or
\* empty when there is no parameter
FilterStatement(filterSqlArr) ==
  IF Len(filterSqlArr) = 0 THEN <<>> ELSE <<WhereTok>> \o Join(filterSqlArr, AndTok)

\* rows: the matching rows, which the statement returns ordered by name
CompanyFindAll(cs, queryStringData) ==
  LET queryKeys == Keys(queryStringData)
      queryValues == Values(queryStringData)
      minEmployees == Get(queryStringData, "minEmployees")
      maxEmployees == Get(queryStringData, "maxEmployees")
      built == CompanyFilter(queryKeys, queryValues)
      filterStatement == FilterStatement(built.filterSqlArr)
      companiesRes == ExecSelect(cs, filterStatement, built.filterVals)
      Failed(status, message, queries) ==
        [status |-> status, message |-> message, queries |-> queries,
         filterStatement |-> <<>>, filterVals |-> <<>>, rows |-> {}]
  IN IF GreaterThan(minEmployees, maxEmployees)
     THEN Failed("ExpressError400", RangeMessage, 0)
     ELSE IF built.threw
     THEN Failed("ExpressError400", built.message, 0)
     ELSE IF companiesRes.err
     THEN [status |-> "DbError", message |-> NoMessage, queries |-> 1,
           filterStatement |-> filterStatement, filterVals |-> built.filterVals,
           rows |-> {}]
     ELSE [status |-> "ok", message |-> NoMessage, queries |-> 1,
           filterStatement |-> filterStatement, filterVals |-> built.filterVals,
           rows |-> companiesRes.rows]

\* WITH job_info AS (SELECT id, title, salary, equity FROM jobs
\*                   WHERE company_handle = $1)
JobInfo(js, handle) ==
  {[id |-> j.id, title |-> j.title, salary |-> j.salary, equity |-> j.equity] :
     j \in {x \in js : x.company_handle = handle}}

\* FROM companies c JOIN jobs j ON j.company_handle = c.handle
\*                  JOIN job_info ON job_info.title = j.title
\* WHERE handle = $1
CompanyJoin(cs, js, handle) ==
  {t \in cs \X js \X JobInfo(js, handle) :
     /\ t[2].company_handle = t[1].handle
     /\ t[3].title = t[2].title
     /\ t[1].handle = handle}

\* GROUP BY c.handle with json_agg(job_info.*): one row per company of the
\* join, its jobs the bag of the job_info rows joined to it
CompanyGrouped(cs, js, handle) ==
  LET joined == CompanyJoin(cs, js, handle)
      Agg(c) ==
        [ji \in {t[3] : t \in {u \in joined : u[1] = c}} |->
           Cardinality({t \in joined : t[1] = c /\ t[3] = ji})]
  IN {[handle |-> c.handle, name |-> c.name, description |-> c.description,
       numEmployees |-> c.num_employees, logoUrl |-> c.logo_url,
       jobs |-> Agg(c)] : c \in {t[1] : t \in joined}}

CompanyGet(cs, js, handle) ==
  LET rows == CompanyGrouped(cs, js, handle)
  IN IF rows = {}
     THEN [status |-> "NotFoundError", val |-> NoVal, queries |-> 1]
     ELSE [status |-> "ok", val |-> CHOOSE company \in rows : TRUE, queries |-> 1]

\* no statement was built: the helper threw first
NoStatement == [setCols |-> <<>>, wherePh |-> 0, params |-> <<>>]

CompanyJsToSql == [numEmployees |-> "num_employees", logoUrl |-> "logo_url"]

CompanyUpdate(cs, handle, data) ==
  LET built == sqlForPartialUpdate(data, CompanyJsToSql)
      handleVarIdx == Len(built.values) + 1
      result == ExecUpdate(cs, CompanyColumns, "handle",
                           built.setCols, handleVarIdx,
                           Append(built.values, handle))
      sql == [setCols |-> built.setCols, wherePh |-> handleVarIdx,
              params |-> Append(built.values, handle)]
  IN IF built.threw # "none"
     THEN [status |-> built.threw, val |-> NoVal, queries |-> 0, table |-> cs,
           sql |-> NoStatement]
     ELSE IF result.err
     THEN [status |-> "DbError", val |-> NoVal, queries |-> 1, table |-> cs,
           sql |-> sql]
     ELSE IF result.rows = {}
     THEN [status |-> "NotFoundError", val |-> NoVal, queries |-> 1,
           table |-> result.table,
           sql |-> sql]
     ELSE [status |-> "ok", val |-> CompanyOut(CHOOSE r \in result.rows : TRUE),
           queries |-> 1, table |-> result.table,
           sql |-> sql]

CompanyRemove(cs, handle) ==
  LET result == ExecDelete(cs, "handle", handle)
  IN IF result.rows = {}
     THEN [status |-> "NotFoundError", val |-> NoVal, queries |-> 1,
           table |-> result.table]
     ELSE [status |-> "ok", val |-> NoVal, queries |-> 1, table |-> result.table]

(***************************************************************************)
(* models/job.js                                                           *)
(***************************************************************************)
\* the duplicate check made per company
JobCreatePerCompany(js, seq, data) ==
  LET duplicateCheck ==
        {r \in js : r.title = data.title /\ r.company_handle = data.companyHandle}
      row == [id |-> seq, title |-> data.title, salary |-> data.salary,
              equity |-> data.equity, company_handle |-> data.companyHandle]
      result == ExecInsert(js, "id", row)
  IN IF duplicateCheck # {}
     THEN [status |-> "BadRequestError", val |-> NoVal, queries |-> 1, table |-> js]
     ELSE IF result.err
     THEN [status |-> "DbError", val |-> NoVal, queries |-> 2, table |-> js]
     ELSE [status |-> "ok", val |-> JobOut(row), queries |-> 2,
           table |-> result.table]

\* seq: the value the id sequence hands to the insert
JobCreate(js, seq, data) ==
  LET duplicateCheck == {r \in js : r.title = data.title}
      row == [id |-> seq, title |-> data.title, salary |-> data.salary,
              equity |-> data.equity, company_handle |-> data.companyHandle]
      result == ExecInsert(js, "id", row)
  IN IF duplicateCheck # {}
     THEN [status |-> "BadRequestError", val |-> NoVal, queries |-> 1, table |-> js]
     ELSE IF result.err
     THEN [status |-> "DbError", val |-> NoVal, queries |-> 2, table |-> js]
     ELSE [status |-> "ok", val |-> JobOut(row), queries |-> 2,
           table |-> result.table]

\* the loop pushing each value as the caller gave it
JobFilterRawValues(queryKeys, queryValues) ==
  LET Known(i) == queryKeys[i] \in {"title", "minSalary", "hasEquity"}
      unknown == {i \in DOMAIN queryKeys : ~Known(i)}
      first == CHOOSE i \in unknown : \A j \in unknown : i <= j
      Pred(i) ==
        CASE queryKeys[i] = "title" -> [col |-> "title", op |-> "ILIKE", ph |-> i]
          [] queryKeys[i] = "minSalary" -> [col |-> "salary", op |-> ">", ph |-> i]
          [] OTHER -> [col |-> "equity", op |-> ">", ph |-> i]
      Val(i) ==
        CASE queryKeys[i] = "title" ->
               Str(<<"%">> \o StringOf(queryValues[i]) \o <<"%">>)
          [] queryKeys[i] = "minSalary" -> queryValues[i]
          [] OTHER -> Num(0)
  IN IF unknown # {}
     THEN [threw |-> TRUE, message |-> InvalidFilter(queryKeys[first]),
           filterSqlArr |-> <<>>, filterVals |-> <<>>]
     ELSE [threw |-> FALSE, message |-> NoMessage,
           filterSqlArr |-> [i \in DOMAIN queryKeys |-> Pred(i)],
           filterVals |-> [i \in DOMAIN queryKeys |-> Val(i)]]

\* the loop over queryKeys; the hasEquity branch tests the key, which is a
\* non-empty string, and so is taken whatever the parameter's value
JobFilter(queryKeys, queryValues) ==
  LET Known(i) == queryKeys[i] \in {"title", "minSalary", "hasEquity"}
      unknown == {i \in DOMAIN queryKeys : ~Known(i)}
      first == CHOOSE i \in unknown : \A j \in unknown : i <= j
      Pred(i) ==
        CASE queryKeys[i] = "title" -> [col |-> "title", op |-> "ILIKE", ph |-> i]
          [] queryKeys[i] = "minSalary" -> [col |-> "salary", op |-> ">", ph |-> i]
          [] OTHER -> [col |-> "equity", op |-> ">", ph |-> i]
      Val(i) ==
        CASE queryKeys[i] = "title" ->
               Str(<<"%">> \o StringOf(queryValues[i]) \o <<"%">>)
          [] queryKeys[i] = "minSalary" -> ParseInt(queryValues[i])
          [] OTHER -> Num(0)
  IN IF unknown # {}
     THEN [threw |-> TRUE, message |-> InvalidFilter(queryKeys[first]),
           filterSqlArr |-> <<>>, filterVals |-> <<>>]
     ELSE [threw |-> FALSE, message |-> NoMessage,
           filterSqlArr |-> [i \in DOMAIN queryKeys |-> Pred(i)],
           filterVals |-> [i \in DOMAIN queryKeys |-> Val(i)]]

\* rows: the matching rows, which the statement returns ordered by title
JobFindAll(js, queryStringData) ==
  LET built == JobFilter(Keys(queryStringData), Values(queryStringData))
      filterStatement == FilterStatement(built.filterSqlArr)
      results == ExecSelect(js, filterStatement, built.filterVals)
  IN IF built.threw
     THEN [status |-> "ExpressError400", message |-> built.message, queries |-> 0,
           filterStatement |-> <<>>, filterVals |-> <<>>, rows |-> {}]
     ELSE IF results.err
     THEN [status |-> "DbError", message |-> NoMessage, queries |-> 1,
           filterStatement |-> filterStatement, filterVals |-> built.filterVals,
           rows |-> {}]
     ELSE [status |-> "ok", message |-> NoMessage, queries |-> 1,
           filterStatement |-> filterStatement, filterVals |-> built.filterVals,
           rows |-> results.rows]

JobGet(js, jobId) ==
  LET rows == {r \in js : r.id = jobId}
  IN IF rows = {}
     THEN [status |-> "NotFoundError", val |-> NoVal, queries |-> 1]
     ELSE [status |-> "ok", val |-> JobOut(CHOOSE r \in rows : TRUE), queries |-> 1]

JobJsToSql == [title |-> "title", salary |-> "salary", equity |-> "equity"]

\* the update without its check that a row came back
JobUpdateUnchecked(js, jobId, updateData) ==
  LET built == sqlForPartialUpdate(updateData, JobJsToSql)
      jobIdx == Len(built.values) + 1
      result == ExecUpdate(js, JobColumns, "id", built.setCols, jobIdx,
                           Append(built.values, jobId))
      sql == [setCols |-> built.setCols, wherePh |-> jobIdx,
              params |-> Append(built.values, jobId)]
  IN IF built.threw # "none"
     THEN [status |-> built.threw, val |-> NoVal, queries |-> 0, table |-> js,
           sql |-> NoStatement]
     ELSE IF result.err
     THEN [status |-> "DbError", val |-> NoVal, queries |-> 1, table |-> js,
           sql |-> sql]
     ELSE [status |-> "ok", val |-> NoVal, queries |-> 1, table |-> result.table,
           sql |-> sql]

JobUpdate(js, jobId, updateData) ==
  LET built == sqlForPartialUpdate(updateData, JobJsToSql)
      jobIdx == Len(built.values) + 1
      result == ExecUpdate(js, JobColumns, "id", built.setCols, jobIdx,
                           Append(built.values, jobId))
      sql == [setCols |-> built.setCols, wherePh |-> jobIdx,
              params |-> Append(built.values, jobId)]
  IN IF built.threw # "none"
     THEN [status |-> built.threw, val |-> NoVal, queries |-> 0, table |-> js,
           sql |-> NoStatement]
     ELSE IF result.err
     THEN [status |-> "DbError", val |-> NoVal, queries |-> 1, table |-> js,
           sql |-> sql]
     ELSE IF result.rows = {}
     THEN [status |-> "NotFoundError", val |-> NoVal, queries |-> 1,
           table |-> result.table,
           sql |-> sql]
     ELSE [status |-> "ok", val |-> JobOut(CHOOSE r \in result.rows : TRUE),
           queries |-> 1, table |-> result.table,
           sql |-> sql]

JobRemove(js, jobId) ==
  LET result == ExecDelete(js, "id", jobId)
  IN IF result.rows = {}
     THEN [status |-> "NotFoundError", val |-> NoVal, queries |-> 1,
           table |-> result.table]
     ELSE [status |-> "ok", val |-> NoVal, queries |-> 1, table |-> result.table]

(***************************************************************************)
(* middleware/auth.js.  A middleware is an operator from res.locals.user   *)
(* to the error it passes to next, "none" when it passes on.               *)
(***************************************************************************)
\* res.locals.user of a request that no token payload was stored for
NoUser == [present |-> FALSE, isAdmin |-> FALSE, username |-> ""]

\* what the authorization header holds: nothing, a token that fails
\* verification, a regular user's token, an admin's token
Tokens == {"none", "invalid", "u1Token", "adminToken"}

\* req.headers.authorization: the text scheme + token, the token between
\* two blanks when pad holds; NoHeader when the request has no such header
NoHeader == [scheme |-> "absent", token |-> "", pad |-> FALSE]

Schemes == {"Bearer ", "bearer ", "BEARER ", ""}

\* the payloads jwt.verify returns for the tokens signed with SECRET_KEY; it
\* throws for every other text
Payloads ==
  [u1Token |-> [present |-> TRUE, isAdmin |-> FALSE, username |-> "u1"],
   u2Token |-> [present |-> TRUE, isAdmin |-> FALSE, username |-> "u2"],
   adminToken |-> [present |-> TRUE, isAdmin |-> TRUE, username |-> "admin"]]

JwtTokens == DOMAIN Payloads \cup {"invalid"}

AuthHeaders == {NoHeader} \cup [scheme : Schemes, token : JwtTokens, pad : BOOLEAN]

\* authHeader.replace(/^[Bb]earer /, "").trim(): the scheme is dropped when it
\* is "Bearer " or "bearer ", and the blanks around what is left
Stripped(authHeader) ==
  [scheme |-> IF authHeader.scheme \in {"Bearer ", "bearer "} THEN ""
              ELSE authHeader.scheme,
   token |-> authHeader.token, pad |-> FALSE]

\* the header of a request of the router model
HeaderOf(token) ==
  IF token = "none" THEN NoHeader
  ELSE [scheme |-> "Bearer ", token |-> token, pad |-> FALSE]

\* the catch passing the verification error on
authenticateJWTStrict(authHeader) ==
  LET text == Stripped(authHeader)
  IN IF authHeader = NoHeader
     THEN [user |-> NoUser, error |-> "none", nextCalls |-> 1]
     ELSE IF text.scheme = "" /\ text.token \in DOMAIN Payloads
     THEN [user |-> Payloads[text.token], error |-> "none", nextCalls |-> 1]
     ELSE [user |-> NoUser, error |-> "JsonWebTokenError", nextCalls |-> 1]

\* the payload of a verified token is stored in res.locals.user; no header
\* and a failed verification (the catch) both call next without a user and
\* without an error
authenticateJWT(authHeader) ==
  LET text == Stripped(authHeader)
  IN IF authHeader = NoHeader
     THEN [user |-> NoUser, error |-> "none", nextCalls |-> 1]
     ELSE IF text.scheme = "" /\ text.token \in DOMAIN Payloads
     THEN [user |-> Payloads[text.token], error |-> "none", nextCalls |-> 1]
     ELSE [user |-> NoUser, error |-> "none", nextCalls |-> 1]

ensureLoggedIn(user) == IF ~user.present THEN "UnauthorizedError" ELSE "none"

\* the check that lets every logged-in user through
isAdminUnchecked(user) == IF ~user.present THEN "TypeError" ELSE "none"

\* res.locals.user.isAdmin of a missing user is a TypeError, which the catch
\* passes to next
isAdmin(user) ==
  IF ~user.present THEN "TypeError"
  ELSE IF ~user.isAdmin THEN "UnauthorizedError"
  ELSE "none"

\* res.locals.user.isAdmin of a missing user is a TypeError here as well
sameUserOrAdmin(user, username) ==
  IF ~user.present THEN "TypeError"
  ELSE IF ~user.isAdmin /\ username # user.username THEN "UnauthorizedError"
  ELSE "none"

\* the status the error handler answers an error with: the error's own
\* status, 500 for an error that has none
HttpStatus(error) ==
  CASE error = "UnauthorizedError" -> 401
    [] error \in {"BadRequestError", "ExpressError400"} -> 400
    [] error = "NotFoundError" -> 404
    [] OTHER -> 500

(***************************************************************************)
(* routes/jobs.js.  A request body is a JS object of JSON values: a number *)
(* is held in thousandths (th), a string as its text (s).                  *)
(***************************************************************************)
JsonNumber(th) == [t |-> "number", th |-> th, s |-> <<>>]

JsonString(s) == [t |-> "string", th |-> 0, s |-> s]

HandleTexts == [c1 |-> <<"c", "1">>, c2 |-> <<"c", "2">>]

\* the value the driver binds for a body field: a text, an integer, and for
\* equity the NUMERIC text of the number
ColumnValue(key, v) ==
  CASE v.t = "string" /\ key = "companyHandle" ->
         CHOOSE h \in DOMAIN HandleTexts : HandleTexts[h] = v.s
    [] v.t = "string" -> v.s
    [] key = "equity" -> IF v.th = 0 THEN "0" ELSE "0.5"
    [] OTHER -> v.th \div 1000

\* a body field as the model method receives it; a missing field is undefined,
\* which the driver binds as NULL
Field(body, key) ==
  IF HasKey(body, key) THEN ColumnValue(key, Get(body, key)) ELSE Null

\* jsonschema.validate(req.body, jobUpdateSchema).valid: title a string,
\* salary an integer of at least 0, equity a number of at most 1.0; no field
\* is required and other fields are not looked at
JobUpdateValid(body) ==
  \A i \in DOMAIN body :
    CASE body[i].k = "title" -> body[i].v.t = "string"
      [] body[i].k = "salary" ->
           /\ body[i].v.t = "number"
           /\ body[i].v.th % 1000 = 0
           /\ body[i].v.th >= 0
      [] body[i].k = "equity" -> body[i].v.t = "number" /\ body[i].v.th <= 1000
      [] OTHER -> TRUE

\* jsonschema.validate(req.body, jobNewSchema).valid: as for an update, and
\* title and companyHandle are required
JobNewValid(body) ==
  /\ JobUpdateValid(body)
  /\ HasKey(body, "title")
  /\ HasKey(body, "companyHandle")
  /\ \A i \in DOMAIN body : body[i].k = "companyHandle" => body[i].v.t = "string"

\* the first error of the chain ensureLoggedIn, isAdmin after authenticateJWT
AdminOnly(token) ==
  LET user == authenticateJWT(HeaderOf(token)).user
  IN IF ensureLoggedIn(user) # "none" THEN ensureLoggedIn(user) ELSE isAdmin(user)

Refused(error, js) == [status |-> error, val |-> NoVal, queries |-> 0, table |-> js]

\* router.post("/"): Job.create(req.body)
PostJobs(js, seq, token, body) ==
  LET data == [title |-> Field(body, "title"), salary |-> Field(body, "salary"),
               equity |-> Field(body, "equity"),
               companyHandle |-> Field(body, "companyHandle")]
  IN IF AdminOnly(token) # "none" THEN Refused(AdminOnly(token), js)
     ELSE IF ~JobNewValid(body) THEN Refused("BadRequestError", js)
     ELSE JobCreate(js, seq, data)

\* router.get("/:jobId"): Job.get(req.params.jobId)
GetJob(js, jobId) ==
  LET r == JobGet(js, jobId)
  IN [status |-> r.status, val |-> r.val, queries |-> r.queries, table |-> js]

\* router.patch("/:jobId"): a body the schema rejects makes the handler read
\* Validator, a name that is not defined, and the ReferenceError goes to next
PatchJob(js, token, jobId, body) ==
  LET updateData ==
        [i \in DOMAIN body |->
           [k |-> body[i].k, v |-> ColumnValue(body[i].k, body[i].v)]]
  IN IF AdminOnly(token) # "none" THEN Refused(AdminOnly(token), js)
     ELSE IF ~JobUpdateValid(body) THEN Refused("ReferenceError", js)
     ELSE JobUpdate(js, jobId, updateData)

\* router.delete("/:jobId"): Job.remove(req.params.jobId)
DeleteJob(js, token, jobId) ==
  IF AdminOnly(token) # "none" THEN Refused(AdminOnly(token), js)
  ELSE JobRemove(js, jobId)

(***************************************************************************)
(* The calls the model makes: argument values are drawn from these sets.   *)
(***************************************************************************)
Handles == {"c1", "c2"}

Names == {<<"A", "b">>, <<"b">>}

EmployeeCounts == {1}

Titles == {<<"a">>, <<"B", "b">>}

Salaries == {1}

Equities == {"0.5"}

\* job ids a caller may name: those the sequence hands out and one it never does
JobIds == 1..(MaxId + 1)

CompanyData ==
  [handle : Handles, name : Names, description : {"d"},
   numEmployees : EmployeeCounts, logoUrl : {"u"}]

JobData ==
  [title : Titles, salary : Salaries, equity : Equities, companyHandle : Handles]

\* key/value pairs of a Company.update payload
CompanyPairs ==
  [k : {"name"}, v : Names] \cup [k : {"numEmployees"}, v : EmployeeCounts]
    \cup [k : {"description"}, v : {"d"}] \cup [k : {"logoUrl"}, v : {"u"}]

\* key/value pairs of a Job.update payload: the payload is whatever object the
\* caller passes, so its keys range over every column of the jobs table
JobPairs ==
  [k : {"title"}, v : Titles] \cup [k : {"salary"}, v : Salaries]
    \cup [k : {"equity"}, v : Equities] \cup [k : {"id"}, v : {MaxId + 1}]
    \cup [k : {"company_handle"}, v : Handles]

\* the payloads of the update calls: any single pair, or several updatable fields
CompanyPayloads ==
  {o \in Objects(CompanyPairs, MaxKeys) :
     Len(o) <= 1 \/ Range(Keys(o)) \subseteq {"name", "numEmployees"}}

JobPayloads ==
  {o \in Objects(JobPairs, MaxKeys) :
     Len(o) <= 1 \/ Range(Keys(o)) \subseteq {"title", "salary"}}

\* column mappings handed to sqlForPartialUpdate: the unit test's, the two
\* models' and the empty one
SqlMappings ==
  <<[firstName |-> "first_name", age |-> "age"], JobJsToSql, CompanyJsToSql,
    [k \in {} |-> ""]>>

SqlPairs ==
  [k : {"firstName"}, v : {"Test", "Aliya"}] \cup [k : {"age"}, v : {21, 32}]
    \cup [k : {"title"}, v : Titles] \cup [k : {"numEmployees"}, v : {1, 2}]
    \cup [k : {"logoUrl"}, v : {"u"}]

SqlPayloads == Objects(SqlPairs, MaxKeys)

\* the payloads of the direct calls made beside the model calls
TestPayloads == {o \in SqlPayloads : Range(Keys(o)) \subseteq {"firstName"}}

\* a payload whose key no mapping has an entry for and every object inherits
InheritedKeyPayloads == {<<[k |-> "constructor", v |-> "x"]>>}

Result(op, args, r) ==
  [op |-> op, args |-> args, status |-> r.status, val |-> r.val,
   queries |-> r.queries]

\* the result of an update call together with the statement it built
UpdateResult(op, args, r) ==
  [op |-> op, args |-> args, status |-> r.status, val |-> r.val,
   queries |-> r.queries, sql |-> r.sql]

\* the create calls that may be in flight, and a call that has not begun
Procs == 1..MaxCalls

Idle == [pc |-> "idle", op |-> "none", data |-> NoVal, status |-> "none", queries |-> 0]

Init ==
  /\ companies = {}
  /\ jobs = {}
  /\ nextId = 1
  /\ ret = [op |-> "none", args |-> NoVal, status |-> "ok", val |-> NoVal,
            queries |-> 0]
  /\ calls = [p \in Procs |-> Idle]

CompanyCreateCall ==
  \E data \in CompanyData :
    LET r == CompanyCreate(companies, data)
    IN /\ companies' = r.table
       /\ ret' = Result("Company.create", data, r)
       /\ UNCHANGED <<jobs, nextId, calls>>

CompanyGetCall ==
  \E handle \in Handles :
    /\ ret' = Result("Company.get", [handle |-> handle],
                     CompanyGet(companies, jobs, handle))
    /\ UNCHANGED <<companies, jobs, nextId, calls>>

CompanyUpdateCall ==
  \E handle \in Handles, data \in CompanyPayloads :
    LET r == CompanyUpdate(companies, handle, data)
    IN /\ companies' = r.table
       /\ ret' = UpdateResult("Company.update", [handle |-> handle, data |-> data], r)
       /\ UNCHANGED <<jobs, nextId, calls>>

CompanyRemoveCall ==
  \E handle \in Handles :
    LET r == CompanyRemove(companies, handle)
    IN /\ companies' = r.table
       /\ ret' = Result("Company.remove", [handle |-> handle], r)
       /\ UNCHANGED <<jobs, nextId, calls>>

\* the id sequence advances exactly when the INSERT is issued
JobCreateCall ==
  \E data \in JobData :
    LET r == JobCreate(jobs, nextId, data)
    IN /\ r.queries = 2 => nextId <= MaxId
       /\ jobs' = r.table
       /\ nextId' = IF r.queries = 2 THEN nextId + 1 ELSE nextId
       /\ ret' = Result("Job.create", data, r)
       /\ UNCHANGED <<companies, calls>>

JobGetCall ==
  \E jobId \in JobIds :
    /\ ret' = Result("Job.get", [jobId |-> jobId], JobGet(jobs, jobId))
    /\ UNCHANGED <<companies, jobs, nextId, calls>>

JobUpdateCall ==
  \E jobId \in JobIds, updateData \in JobPayloads :
    LET r == JobUpdate(jobs, jobId, updateData)
    IN /\ jobs' = r.table
       /\ ret' = UpdateResult("Job.update", [jobId |-> jobId, data |-> updateData], r)
       /\ UNCHANGED <<companies, nextId, calls>>

JobRemoveCall ==
  \E jobId \in JobIds :
    LET r == JobRemove(jobs, jobId)
    IN /\ jobs' = r.table
       /\ ret' = Result("Job.remove", [jobId |-> jobId], r)
       /\ UNCHANGED <<companies, nextId, calls>>

\* a direct call of the helper, as the unit tests make it
SqlForPartialUpdateCall(payloads) ==
  \E dataToUpdate \in payloads, m \in DOMAIN SqlMappings :
    LET built == sqlForPartialUpdate(dataToUpdate, SqlMappings[m])
    IN /\ ret' = [op |-> "sqlForPartialUpdate",
                  args |-> [data |-> dataToUpdate, jsToSql |-> SqlMappings[m]],
                  status |-> IF built.threw = "none" THEN "ok" ELSE built.threw,
                  val |-> [setCols |-> built.setCols, values |-> built.values],
                  queries |-> 0]
       /\ UNCHANGED <<companies, jobs, nextId, calls>>

Next ==
  \/ SqlForPartialUpdateCall(TestPayloads \cup InheritedKeyPayloads)
  \/ CompanyCreateCall
  \/ CompanyGetCall
  \/ CompanyUpdateCall
  \/ CompanyRemoveCall
  \/ JobCreateCall
  \/ JobGetCall
  \/ JobUpdateCall
  \/ JobRemoveCall

Spec == Init /\ [][Next]_vars

(***************************************************************************)
(* The findAll calls, on tables that earlier calls have filled.            *)
(***************************************************************************)
SeedCompanies ==
  {[handle |-> "c1", name |-> <<"A", "b">>, description |-> "d",
    num_employees |-> 9, logo_url |-> "u"],
   [handle |-> "c2", name |-> <<"b">>, description |-> "d",
    num_employees |-> 10, logo_url |-> "u"],
   [handle |-> "c3", name |-> <<"b">>, description |-> "d",
    num_employees |-> 9, logo_url |-> "u"]}

SeedJobs ==
  {[id |-> 1, title |-> <<"a">>, salary |-> 1, equity |-> "0.5",
    company_handle |-> "c1"],
   [id |-> 2, title |-> <<"B", "b">>, salary |-> 2, equity |-> "0",
    company_handle |-> "c2"],
   [id |-> 3, title |-> <<"a", "_">>, salary |-> 2, equity |-> Null,
    company_handle |-> "c2"]}

\* an employee count as a direct call passes it and as a query string does
EmployeeFilterValues == {Num(9), Num(10), Str(<<"9">>), Str(<<"1", "0">>)}

CompanyFilterPairs ==
  [k : {"name"}, v : {Str(<<"b">>)}]
    \cup [k : {"minEmployees", "maxEmployees"}, v : EmployeeFilterValues]
    \cup [k : {"bananas"}, v : {Str(<<"y", "e", "s">>)}]

JobFilterPairs ==
  [k : {"title"}, v : {Str(<<"b">>), Str(<<"_">>)}]
    \cup [k : {"minSalary"}, v : {Num(1), Str(<<"1">>)}]
    \cup [k : {"hasEquity"}, v : {Bool(TRUE), Bool(FALSE)}]
    \cup [k : {"bananas"}, v : {Str(<<"y", "e", "s">>)}]

CompanyFilters == Objects(CompanyFilterPairs, MaxFilterKeys)

JobFilters == Objects(JobFilterPairs, MaxFilterKeys)

FindResult(op, queryStringData, r, rows) ==
  [op |-> op, args |-> [params |-> queryStringData], status |-> r.status,
   val |-> [rows |-> rows], queries |-> r.queries, message |-> r.message,
   sql |-> [filterStatement |-> r.filterStatement, filterVals |-> r.filterVals]]

\* the tables a findAll call may meet
SeedTables ==
  {<<SeedCompanies, SeedJobs>>,
   <<{c \in SeedCompanies : c.handle # "c3"}, {j \in SeedJobs : j.id # 3}>>,
   <<{}, {}>>}

InitFind ==
  /\ \E tables \in SeedTables : companies = tables[1] /\ jobs = tables[2]
  /\ nextId = Cardinality(SeedJobs) + 1
  /\ ret = [op |-> "none", args |-> NoVal, status |-> "ok", val |-> NoVal,
            queries |-> 0]
  /\ calls = [p \in Procs |-> Idle]

CompanyFindAllCall ==
  \E queryStringData \in CompanyFilters :
    LET r == CompanyFindAll(companies, queryStringData)
    IN \E rows \in Ordered(r.rows, "name") :
         /\ ret' = FindResult("Company.findAll", queryStringData, r, rows)
         /\ UNCHANGED <<companies, jobs, nextId, calls>>

JobFindAllCall ==
  \E queryStringData \in JobFilters :
    LET r == JobFindAll(jobs, queryStringData)
    IN \E rows \in Ordered(r.rows, "title") :
         /\ ret' = FindResult("Job.findAll", queryStringData, r, rows)
         /\ UNCHANGED <<companies, jobs, nextId, calls>>

NextFind == CompanyFindAllCall \/ JobFindAllCall

SpecFind == InitFind /\ [][NextFind]_vars

\* the helper alone, over every payload and mapping of the model
NextSql == SqlForPartialUpdateCall(SqlPayloads)

SpecSql == Init /\ [][NextSql]_vars

(***************************************************************************)
(* The requests to the jobs router.                                        *)
(***************************************************************************)
NewJobBody(title, salary) ==
  <<[k |-> "title", v |-> JsonString(title)],
    [k |-> "salary", v |-> JsonNumber(1000 * salary)],
    [k |-> "equity", v |-> JsonNumber(500)],
    [k |-> "companyHandle", v |-> JsonString(HandleTexts["c1"])]>>

\* bodies of POST /jobs: complete ones, one with a negative salary and one
\* with a title alone
PostBodies ==
  {NewJobBody(title, salary) : title \in Titles, salary \in Salaries \cup {-1}}
    \cup {<<[k |-> "title", v |-> JsonString(title)]>> : title \in Titles}

\* fields of a PATCH body: fitting the schema, and a title that is a number,
\* a negative salary, an equity above 1.0
PatchPairs ==
  [k : {"title"}, v : {JsonString(title) : title \in Titles} \cup {JsonNumber(5000)}]
    \cup [k : {"salary"}, v : {JsonNumber(1000 * s) : s \in Salaries \cup {-1}}]
    \cup [k : {"equity"}, v : {JsonNumber(500), JsonNumber(1500)}]

\* any single field, or a title with a salary
PatchBodies ==
  {o \in Objects(PatchPairs, MaxKeys) :
     Len(o) <= 1 \/ Keys(o) = <<"title", "salary">>}

\* req.query of GET /jobs: every value is a string
QueryPairs ==
  {[k |-> "title", v |-> Str(<<"b">>)], [k |-> "minSalary", v |-> Str(<<"1">>)],
   [k |-> "hasEquity", v |-> Str(<<"t", "r", "u", "e">>)],
   [k |-> "bananas", v |-> Str(<<"y", "e", "s">>)]}

Queries == {o \in Objects(QueryPairs, MaxKeys) : Len(o) <= 1}

\* the response: the status sent, the error passed to next ("ok" when none)
Response(op, args, r, success) ==
  [op |-> op, args |-> args,
   status |-> IF r.status = "ok" THEN success ELSE HttpStatus(r.status),
   error |-> r.status, val |-> r.val, queries |-> r.queries]

PostJobsCall ==
  \E token \in Tokens, body \in PostBodies :
    LET r == PostJobs(jobs, nextId, token, body)
    IN /\ r.queries = 2 => nextId <= MaxId
       /\ jobs' = r.table
       /\ nextId' = IF r.queries = 2 THEN nextId + 1 ELSE nextId
       /\ ret' = Response("POST /jobs", [token |-> token, body |-> body], r, 201)
       /\ UNCHANGED <<companies, calls>>

GetJobsCall ==
  \E token \in Tokens, query \in Queries :
    LET r == JobFindAll(jobs, query)
    IN \E rows \in Ordered(r.rows, "title") :
         /\ ret' = Response("GET /jobs", [token |-> token, query |-> query],
                            [status |-> r.status, val |-> [rows |-> rows],
                             queries |-> r.queries], 200)
         /\ UNCHANGED <<companies, jobs, nextId, calls>>

GetJobCall ==
  \E token \in Tokens, jobId \in JobIds :
    /\ ret' = Response("GET /jobs/:jobId", [token |-> token, jobId |-> jobId],
                       GetJob(jobs, jobId), 200)
    /\ UNCHANGED <<companies, jobs, nextId, calls>>

PatchJobCall ==
  \E token \in Tokens, jobId \in JobIds, body \in PatchBodies :
    LET r == PatchJob(jobs, token, jobId, body)
    IN /\ jobs' = r.table
       /\ ret' = Response("PATCH /jobs/:jobId",
                          [token |-> token, jobId |-> jobId, body |-> body], r, 200)
       /\ UNCHANGED <<companies, nextId, calls>>

DeleteJobCall ==
  \E token \in Tokens, jobId \in JobIds :
    LET r == DeleteJob(jobs, token, jobId)
    IN /\ jobs' = r.table
       /\ ret' = Response("DELETE /jobs/:jobId", [token |-> token, jobId |-> jobId],
                          r, 200)
       /\ UNCHANGED <<companies, nextId, calls>>

NextRoutes ==
  \/ PostJobsCall
  \/ GetJobsCall
  \/ GetJobCall
  \/ PatchJobCall
  \/ DeleteJobCall

SpecRoutes == Init /\ [][NextRoutes]_vars

(***************************************************************************)
(* Create calls in flight together.  A call runs up to its next await: it  *)
(* issues the duplicate-check SELECT and reads the answer, and, resumed     *)
(* later, issues the INSERT.  Calls of other requests run in between.      *)
(***************************************************************************)
Waiting(op, data) ==
  [pc |-> "insert", op |-> op, data |-> data, status |-> "none", queries |-> 1]

Done(op, data, status, queries) ==
  [pc |-> "done", op |-> op, data |-> data, status |-> status, queries |-> queries]

\* SELECT handle FROM companies WHERE handle = $1
CompanyCreateLookup(cs, data) == {r \in cs : r.handle = data.handle}

\* INSERT INTO companies ... RETURNING ...
CompanyCreateInsert(cs, data) ==
  LET row == [handle |-> data.handle, name |-> data.name,
              description |-> data.description,
              num_employees |-> data.numEmployees, logo_url |-> data.logoUrl]
      result == ExecInsert(cs, "handle", row)
  IN IF result.err
     THEN [status |-> "DbError", val |-> NoVal, queries |-> 2, table |-> cs]
     ELSE [status |-> "ok", val |-> CompanyOut(row), queries |-> 2,
           table |-> result.table]

\* SELECT title FROM jobs WHERE title = $1
JobCreateLookup(js, data) == {r \in js : r.title = data.title}

\* the insert that looks the title up once more
JobCreateInsertRechecked(js, seq, data) ==
  IF JobCreateLookup(js, data) # {}
  THEN [status |-> "BadRequestError", val |-> NoVal, queries |-> 2, table |-> js]
  ELSE JobCreate(js, seq, data)

\* INSERT INTO jobs ... RETURNING ...
JobCreateInsert(js, seq, data) ==
  LET row == [id |-> seq, title |-> data.title, salary |-> data.salary,
              equity |-> data.equity, company_handle |-> data.companyHandle]
      result == ExecInsert(js, "id", row)
  IN IF result.err
     THEN [status |-> "DbError", val |-> NoVal, queries |-> 2, table |-> js]
     ELSE [status |-> "ok", val |-> JobOut(row), queries |-> 2,
           table |-> result.table]

\* Company.create up to the await of its INSERT
CompanyCreateBegin ==
  \E p \in Procs, data \in CompanyData :
    /\ calls[p].pc = "idle"
    /\ IF CompanyCreateLookup(companies, data) # {}
       THEN /\ calls' = [calls EXCEPT
                           ![p] = Done("Company.create", data, "BadRequestError", 1)]
            /\ ret' = Result("Company.create", data,
                             [status |-> "BadRequestError", val |-> NoVal,
                              queries |-> 1])
       ELSE /\ calls' = [calls EXCEPT ![p] = Waiting("Company.create", data)]
            /\ ret' = ret
    /\ UNCHANGED <<companies, jobs, nextId>>

\* Company.create from its INSERT to its return
CompanyCreateEnd ==
  \E p \in Procs :
    /\ calls[p].pc = "insert"
    /\ calls[p].op = "Company.create"
    /\ LET r == CompanyCreateInsert(companies, calls[p].data)
       IN /\ companies' = r.table
          /\ calls' = [calls EXCEPT
                         ![p] = Done("Company.create", calls[p].data, r.status, 2)]
          /\ ret' = Result("Company.create", calls[p].data, r)
    /\ UNCHANGED <<jobs, nextId>>

\* Job.create up to the await of its INSERT
JobCreateBegin ==
  \E p \in Procs, data \in JobData :
    /\ calls[p].pc = "idle"
    /\ IF JobCreateLookup(jobs, data) # {}
       THEN /\ calls' = [calls EXCEPT
                           ![p] = Done("Job.create", data, "BadRequestError", 1)]
            /\ ret' = Result("Job.create", data,
                             [status |-> "BadRequestError", val |-> NoVal,
                              queries |-> 1])
       ELSE /\ calls' = [calls EXCEPT ![p] = Waiting("Job.create", data)]
            /\ ret' = ret
    /\ UNCHANGED <<companies, jobs, nextId>>

\* Job.create from its INSERT to its return
JobCreateEnd ==
  \E p \in Procs :
    /\ calls[p].pc = "insert"
    /\ calls[p].op = "Job.create"
    /\ nextId <= MaxId
    /\ LET r == JobCreateInsert(jobs, nextId, calls[p].data)
       IN /\ jobs' = r.table
          /\ nextId' = nextId + 1
          /\ calls' = [calls EXCEPT
                         ![p] = Done("Job.create", calls[p].data, r.status, 2)]
          /\ ret' = Result("Job.create", calls[p].data, r)
    /\ UNCHANGED companies

NextRace ==
  \/ CompanyCreateBegin
  \/ CompanyCreateEnd
  \/ JobCreateBegin
  \/ JobCreateEnd

SpecRace == Init /\ [][NextRace]_vars

(***************************************************************************)
(* The middleware called on a request, each by itself: authenticateJWT on  *)
(* the request's header, the others on the res.locals it leaves.           *)
(***************************************************************************)
Usernames == {"u1", "u2", "u3"}

Passed(op, args, user, error) ==
  [op |-> op, args |-> args, user |-> user, error |-> error, nextCalls |-> 1]

AuthenticateJWTCall ==
  \E authHeader \in AuthHeaders :
    LET r == authenticateJWT(authHeader)
    IN /\ ret' = [op |-> "authenticateJWT", args |-> [authHeader |-> authHeader],
                  user |-> r.user, error |-> r.error, nextCalls |-> r.nextCalls]
       /\ UNCHANGED <<companies, jobs, nextId, calls>>

EnsureLoggedInCall ==
  \E authHeader \in AuthHeaders :
    LET user == authenticateJWT(authHeader).user
    IN /\ ret' = Passed("ensureLoggedIn", [authHeader |-> authHeader], user,
                        ensureLoggedIn(user))
       /\ UNCHANGED <<companies, jobs, nextId, calls>>

IsAdminCall ==
  \E authHeader \in AuthHeaders :
    LET user == authenticateJWT(authHeader).user
    IN /\ ret' = Passed("isAdmin", [authHeader |-> authHeader], user, isAdmin(user))
       /\ UNCHANGED <<companies, jobs, nextId, calls>>

SameUserOrAdminCall ==
  \E authHeader \in AuthHeaders, username \in Usernames :
    LET user == authenticateJWT(authHeader).user
    IN /\ ret' = Passed("sameUserOrAdmin",
                        [authHeader |-> authHeader, username |-> username], user,
                        sameUserOrAdmin(user, username))
       /\ UNCHANGED <<companies, jobs, nextId, calls>>

NextAuth ==
  \/ AuthenticateJWTCall
  \/ EnsureLoggedInCall
  \/ IsAdminCall
  \/ SameUserOrAdminCall

SpecAuth == Init /\ [][NextAuth]_vars

(***************************************************************************)
(* Properties.                                                             *)
(***************************************************************************)
IsSqlCall == ret.op = "sqlForPartialUpdate"

\* C1: for a non-empty payload, setCols is one assignment per payload key,
\* comma separated, in key order; the i-th assignment names the column the
\* mapping gives the i-th key and the placeholder $i; values has the same
\* length and its i-th element is the i-th key's value.
PartialUpdateShape ==
  (IsSqlCall /\ Len(ret.args.data) > 0) =>
    LET data == ret.args.data
        jsToSql == ret.args.jsToSql
        n == Len(data)
        setCols == ret.val.setCols
        Mapped(key) == IF key \in DOMAIN jsToSql THEN jsToSql[key] ELSE key
    IN /\ ret.status = "ok"
       /\ Len(setCols) = 2 * n - 1
       /\ \A i \in 1..n :
            /\ setCols[2 * i - 1].col = Mapped(data[i].k)
            /\ setCols[2 * i - 1].ph = i
       /\ \A i \in 1..(n - 1) : setCols[2 * i] = Comma
       /\ Len(ret.val.values) = n
       /\ \A i \in 1..n : ret.val.values[i] = data[i].v

\* a two-key payload whose second key the mapping renames has been formatted
PartialUpdateShapeWitness ==
  /\ IsSqlCall
  /\ ret.status = "ok"
  /\ Len(ret.args.data) = 2
  /\ ret.args.data[1].k = "age"
  /\ ret.args.data[2].k = "firstName"
  /\ ret.val.setCols[3] = [col |-> "first_name", ph |-> 2]

IsUpdateCall == ret.op \in {"sqlForPartialUpdate", "Job.update", "Company.update"}

\* C2: an update with an empty payload fails with BadRequestError under every
\* column mapping, issues no statement and leaves both tables as they were.
EmptyPayloadRejected ==
  [][(IsUpdateCall' /\ ret'.args.data = <<>>) =>
       /\ ret'.status = "BadRequestError"
       /\ ret'.queries = 0
       /\ UNCHANGED <<companies, jobs, nextId>>]_vars

\* Job.update was called with an empty payload on a stored job
EmptyPayloadRejectedWitness ==
  /\ ret.op = "Job.update"
  /\ ret.args.data = <<>>
  /\ \E j \in jobs : j.id = ret.args.jobId
  /\ ret.status = "BadRequestError"

\* C3: no Job.update call changes the id or the company handle of a stored
\* job, whatever keys its payload has.
JobIdAndCompanyImmutable ==
  [][ret'.op = "Job.update" =>
       {<<j.id, j.company_handle>> : j \in jobs'}
         = {<<j.id, j.company_handle>> : j \in jobs}]_vars

StoredCompany(cs, handle) == \E c \in cs : c.handle = handle

StoredJob(js, jobId) == \E j \in js : j.id = jobId

\* C7: Company.create with a handle that is already stored fails with
\* BadRequestError after the lookup alone; no company row is added or changed.
DuplicateCompanyRejected ==
  [][(ret'.op = "Company.create" /\ StoredCompany(companies, ret'.args.handle)) =>
       /\ ret'.status = "BadRequestError"
       /\ ret'.queries = 1
       /\ UNCHANGED <<companies, jobs, nextId>>]_vars

\* a create was rejected whose name differs from the stored company's
DuplicateCompanyRejectedWitness ==
  /\ ret.op = "Company.create"
  /\ ret.status = "BadRequestError"
  /\ \E c \in companies : c.handle = ret.args.handle /\ c.name # ret.args.name

CompanyGetFindsStored ==
  ret.op = "Company.get" =>
    IF StoredCompany(companies, ret.args.handle)
    THEN /\ ret.status = "ok"
         /\ \E c \in companies :
              /\ c.handle = ret.args.handle
              /\ ret.val.handle = c.handle
              /\ ret.val.name = c.name
              /\ ret.val.description = c.description
              /\ ret.val.numEmployees = c.num_employees
              /\ ret.val.logoUrl = c.logo_url
    ELSE ret.status = "NotFoundError"

IsFindAll == ret.op \in {"Company.findAll", "Job.findAll"}

RecognizedFilters ==
  IF ret.op = "Company.findAll" THEN {"name", "minEmployees", "maxEmployees"}
  ELSE {"title", "minSalary", "hasEquity"}

\* the positions of the filter parameters whose key is not a recognized filter
UnknownAt == {i \in DOMAIN ret.args.params : ret.args.params[i].k \notin RecognizedFilters}

\* C4 as stated: a findAll call given a key outside the recognized set fails
\* with a 400 error whose message names an offending key, and issues no query.
UnknownFilterNamed ==
  (IsFindAll /\ UnknownAt # {}) =>
    /\ ret.status = "ExpressError400"
    /\ ret.queries = 0
    /\ \E i \in UnknownAt : ret.message = InvalidFilter(ret.args.params[i].k)

\* C4 as amended: the call fails with a 400 error and issues no query,
\* wherever the key sits; the message names the first offending key, or, in
\* Company.findAll given minEmployees and maxEmployees as well, is the message
\* of the range check.
UnknownFilterRejected ==
  (IsFindAll /\ UnknownAt # {}) =>
    /\ ret.status = "ExpressError400"
    /\ ret.queries = 0
    /\ ret.sql.filterStatement = <<>>
    /\ \/ \E i \in UnknownAt :
            /\ \A j \in UnknownAt : i <= j
            /\ ret.message = InvalidFilter(ret.args.params[i].k)
       \/ /\ ret.op = "Company.findAll"
          /\ HasKey(ret.args.params, "minEmployees")
          /\ HasKey(ret.args.params, "maxEmployees")
          /\ ret.message = RangeMessage

\* a call was rejected for an unknown key that sits between two recognized keys
UnknownFilterRejectedWitness ==
  /\ IsFindAll
  /\ Len(ret.args.params) = 3
  /\ UnknownAt = {2}
  /\ ret.status = "ExpressError400"
  /\ ret.message = InvalidFilter("bananas")

\* C5: when every key is a recognized filter, building the clause throws
\* nothing, and the clause built is WHERE followed by one predicate per
\* parameter with AND between two neighbours (nothing at all for no parameter).
RecognizedFiltersBuild ==
  (IsFindAll /\ UnknownAt = {}) =>
    LET n == Len(ret.args.params)
        clause == ret.sql.filterStatement
    IN /\ ret.message.text # InvalidFilter("").text
       /\ ret.status = "ExpressError400" => ret.message = RangeMessage
       /\ ret.status # "ExpressError400" =>
            /\ Len(clause) = 2 * n
            /\ n > 0 => clause[1] = WhereTok
            /\ \A i \in 1..n : clause[2 * i].op \in {"ILIKE", ">", "<"}
            /\ \A i \in 1..(n - 1) : clause[2 * i + 1] = AndTok
            /\ Len(ret.sql.filterVals) = n

\* a clause of three predicates was built and its query answered
RecognizedFiltersBuildWitness ==
  /\ IsFindAll
  /\ UnknownAt = {}
  /\ Len(ret.args.params) = 3
  /\ ret.status = "ok"
  /\ Len(ret.sql.filterStatement) = 6

\* the number a filter value stands for
Numeric(v) == IF v.t = "number" THEN v.n ELSE DigitsToNat(v.s)

\* C6: Company.findAll given both bounds, the minimum numerically greater
\* than the maximum, fails with a 400 error before any query, whether the
\* values are integers or decimal strings.
RangeRejected ==
  (/\ ret.op = "Company.findAll"
   /\ HasKey(ret.args.params, "minEmployees")
   /\ HasKey(ret.args.params, "maxEmployees")
   /\ Numeric(Get(ret.args.params, "minEmployees"))
        > Numeric(Get(ret.args.params, "maxEmployees"))) =>
    /\ ret.status = "ExpressError400"
    /\ ret.queries = 0

\* C11: Company.get of a stored company that has jobs returns one record
\* whose jobs list holds each job of the company exactly once and no other job,
\* also when two of the company's jobs share a title.
CompanyGetListsJobsOnce ==
  (/\ ret.op = "Company.get"
   /\ StoredCompany(companies, ret.args.handle)
   /\ \E j \in jobs : j.company_handle = ret.args.handle) =>
    /\ ret.status = "ok"
    /\ ret.val.handle = ret.args.handle
    /\ DOMAIN ret.val.jobs =
         {[id |-> j.id, title |-> j.title, salary |-> j.salary, equity |-> j.equity] :
            j \in {x \in jobs : x.company_handle = ret.args.handle}}
    /\ \A job \in DOMAIN ret.val.jobs : ret.val.jobs[job] = 1

\* sub occurs in text as a run of neighbouring characters
ContainsText(text, sub) ==
  \E i \in 1..(Len(text) + 1) :
    /\ i + Len(sub) - 1 <= Len(text)
    /\ SubSeq(text, i, i + Len(sub) - 1) = sub

\* C12: Job.findAll({title: t}) returns exactly the stored jobs whose title
\* contains t ignoring letter case, each once, in ascending order of title,
\* for every text t, the characters % and _ included.
TitleFilterIsSubstring ==
  (ret.op = "Job.findAll" /\ Keys(ret.args.params) = <<"title">>) =>
    LET t == ret.args.params[1].v.s
        rows == ret.val.rows
    IN /\ ret.status = "ok"
       /\ Range(rows) =
            {j \in jobs : ContainsText(LowerText(j.title), LowerText(t))}
       /\ \A i, j \in DOMAIN rows : rows[i] = rows[j] => i = j
       /\ \A i, j \in DOMAIN rows :
            i < j => ~TextLess(rows[j].title, rows[i].title)

\* the column a payload key of an update call stands for
FieldColumn(key) ==
  CASE key = "numEmployees" -> "num_employees"
    [] key = "logoUrl" -> "logo_url"
    [] OTHER -> key

\* C13: a successful Job.update or Company.update replaces the targeted row
\* by the same row with the payload's fields set to the payload's values; the
\* row's other fields, every other row and the other table stay as they were,
\* and the record returned is the row as stored after the update.
PartialUpdateFrame ==
  [][(ret'.op \in {"Job.update", "Company.update"} /\ ret'.status = "ok") =>
       LET isJob == ret'.op = "Job.update"
           data == ret'.args.data
           old == IF isJob THEN jobs ELSE companies
           new == IF isJob THEN jobs' ELSE companies'
           Targeted(r) ==
             IF isJob THEN r.id = ret'.args.jobId ELSE r.handle = ret'.args.handle
           Named(c) == \E i \in DOMAIN data : FieldColumn(data[i].k) = c
           Supplied(c) ==
             data[CHOOSE i \in DOMAIN data : FieldColumn(data[i].k) = c].v
       IN /\ \E r \in old : \E n \in new :
               /\ Targeted(r)
               /\ new = (old \ {r}) \cup {n}
               /\ \A c \in DOMAIN r : n[c] = IF Named(c) THEN Supplied(c) ELSE r[c]
               /\ \A i \in DOMAIN data : FieldColumn(data[i].k) \in DOMAIN r
               /\ ret'.val = IF isJob THEN JobOut(n) ELSE CompanyOut(n)
          /\ isJob => companies' = companies
          /\ ~isJob => jobs' = jobs
          /\ nextId' = nextId]_vars

\* Job.update has set two fields of one of two stored jobs
PartialUpdateFrameWitness ==
  /\ ret.op = "Job.update"
  /\ ret.status = "ok"
  /\ Len(ret.args.data) = 2
  /\ Cardinality(jobs) = 2
  /\ \E j \in jobs : j.id = ret.args.jobId /\ j.title = ret.val.title
  /\ \E j \in jobs : j.id # ret.args.jobId /\ j.title # ret.val.title

IsJobMutation ==
  ret.op \in {"POST /jobs", "PATCH /jobs/:jobId", "DELETE /jobs/:jobId"}

\* C14: POST /jobs, PATCH /jobs/:jobId and DELETE /jobs/:jobId change the
\* jobs table only for a request with an admin's valid token; with no valid
\* token or a regular user's they answer 401 and change nothing.  GET /jobs
\* and GET /jobs/:jobId change nothing, never answer 401, and answer 200 for
\* recognized filters and for a stored job, whatever the token.
JobRoutesAdminOnly ==
  [][/\ (IsJobMutation' /\ ret'.args.token # "adminToken") =>
          /\ ret'.status = 401
          /\ UNCHANGED <<companies, jobs, nextId>>
     /\ jobs' # jobs => (IsJobMutation' /\ ret'.args.token = "adminToken")
     /\ ret'.op = "GET /jobs" =>
          /\ ret'.status # 401
          /\ (\A i \in DOMAIN ret'.args.query :
                ret'.args.query[i].k \in {"title", "minSalary", "hasEquity"}) =>
               ret'.status = 200
     /\ ret'.op = "GET /jobs/:jobId" =>
          /\ ret'.status # 401
          /\ StoredJob(jobs, ret'.args.jobId) => ret'.status = 200]_vars

\* a regular user's DELETE of a stored job was answered 401
JobRoutesAdminOnlyWitness ==
  /\ ret.op = "DELETE /jobs/:jobId"
  /\ ret.args.token = "u1Token"
  /\ StoredJob(jobs, ret.args.jobId)
  /\ ret.status = 401

\* C15: an admin's PATCH of a stored job whose body the jobUpdate schema
\* rejects is answered 400 with a BadRequestError and leaves the jobs as they
\* were.
InvalidPatchRejected ==
  [][(/\ ret'.op = "PATCH /jobs/:jobId"
      /\ ret'.args.token = "adminToken"
      /\ StoredJob(jobs, ret'.args.jobId)
      /\ ~JobUpdateValid(ret'.args.body)) =>
       /\ ret'.status = 400
       /\ ret'.error = "BadRequestError"
       /\ jobs' = jobs]_vars

\* two calls of the same method with the same natural key
SameKey(a, b) ==
  /\ a.op = b.op
  /\ IF a.op = "Company.create" THEN a.data.handle = b.data.handle
     ELSE a.data.title = b.data.title

\* C16: when two create calls with the same natural key have both passed
\* their duplicate check and both issued their insert, neither reports the
\* duplicate error (BadRequestError); the second insert is stopped by storage
\* alone: for companies the key constraint on handle rejects it, for jobs every
\* such call's row is stored under the one title.
CreateRace ==
  \A p, q \in Procs :
    (/\ p # q
     /\ calls[p].pc = "done" /\ calls[p].queries = 2
     /\ calls[q].pc = "done" /\ calls[q].queries = 2
     /\ SameKey(calls[p], calls[q])) =>
      /\ calls[p].status # "BadRequestError"
      /\ calls[q].status # "BadRequestError"
      /\ calls[p].op = "Job.create" =>
           /\ calls[p].status = "ok" /\ calls[q].status = "ok"
           /\ Cardinality({j \in jobs : j.title = calls[p].data.title}) =
                Cardinality({r \in Procs : /\ calls[r].pc = "done"
                                           /\ calls[r].queries = 2
                                           /\ SameKey(calls[r], calls[p])})
      /\ calls[p].op = "Company.create" =>
           /\ {calls[p].status, calls[q].status} \subseteq {"ok", "DbError"}
           /\ "DbError" \in {calls[p].status, calls[q].status}
           /\ Cardinality({c \in companies : c.handle = calls[p].data.handle}) = 1

\* two Job.create calls for one title have both returned a job
CreateRaceWitness ==
  /\ calls[1].pc = "done" /\ calls[1].op = "Job.create" /\ calls[1].status = "ok"
  /\ calls[2].pc = "done" /\ calls[2].op = "Job.create" /\ calls[2].status = "ok"
  /\ calls[1].data.title = calls[2].data.title
  /\ Cardinality({j \in jobs : j.title = calls[1].data.title}) = 2

\* C17: Company.findAll and Job.findAll without filter parameters build an
\* empty clause (no WHERE, no operator left over) and an empty parameter list
\* and return every stored row of the entity once, companies in ascending
\* order of name and jobs of title.
NoFilterListsAll ==
  (IsFindAll /\ ret.args.params = <<>>) =>
    LET table == IF ret.op = "Company.findAll" THEN companies ELSE jobs
        col == IF ret.op = "Company.findAll" THEN "name" ELSE "title"
        rows == ret.val.rows
    IN /\ ret.status = "ok"
       /\ ret.sql.filterStatement = <<>>
       /\ ret.sql.filterVals = <<>>
       /\ Range(rows) = table
       /\ Len(rows) = Cardinality(table)
       /\ \A i, j \in DOMAIN rows : i < j => ~TextLess(rows[j][col], rows[i][col])

\* Company.findAll without parameters has listed three companies, two of
\* them of one name
NoFilterListsAllWitness ==
  /\ ret.op = "Company.findAll"
  /\ ret.args.params = <<>>
  /\ ret.status = "ok"
  /\ Len(ret.val.rows) = 3
  /\ \E i, j \in DOMAIN ret.val.rows : i # j /\ ret.val.rows[i].name = ret.val.rows[j].name

\* the predicate and the parameter a recognized filter key stands for
FilterColumn(key) ==
  CASE key \in {"minEmployees", "maxEmployees"} -> "num_employees"
    [] key = "minSalary" -> "salary"
    [] key = "hasEquity" -> "equity"
    [] OTHER -> key

FilterOp(key) ==
  CASE key \in {"name", "title"} -> "ILIKE"
    [] key = "maxEmployees" -> "<"
    [] OTHER -> ">"

FilterValue(key, v) ==
  CASE key \in {"name", "title"} -> Str(<<"%">> \o v.s \o <<"%">>)
    [] key = "hasEquity" -> Num(0)
    [] OTHER -> Num(Numeric(v))

\* C18: for recognized filter parameters in any key order (and no range
\* error), the clause has one predicate per key in key order, the i-th on the
\* key's column with the key's operator and placeholder $i, and the i-th
\* parameter is the i-th key's transformed value: the text between two %, the
\* integer of a minimum or maximum, 0 for hasEquity; the parameter list is as
\* long as the clause has placeholders.
FilterClauseShape ==
  (IsFindAll /\ UnknownAt = {} /\ ret.status # "ExpressError400") =>
    LET params == ret.args.params
        n == Len(params)
        clause == ret.sql.filterStatement
        vals == ret.sql.filterVals
    IN /\ Len(clause) = 2 * n
       /\ \A i \in 1..n :
            /\ clause[2 * i] = [col |-> FilterColumn(params[i].k),
                                op |-> FilterOp(params[i].k), ph |-> i]
            /\ vals[i] = FilterValue(params[i].k, params[i].v)
       /\ Len(vals) = n
       /\ {clause[j].ph : j \in DOMAIN clause} \ {0} = 1..Len(vals)

\* Job.findAll has built the clause for hasEquity, a minSalary given as a
\* text, and title, in that order
FilterClauseShapeWitness ==
  /\ ret.op = "Job.findAll"
  /\ ret.status = "ok"
  /\ Keys(ret.args.params) = <<"hasEquity", "minSalary", "title">>
  /\ ret.args.params[2].v.t = "string"
  /\ ret.sql.filterVals[2] = Num(1)

\* C19: Job.findAll({hasEquity: true}) returns exactly the jobs whose equity
\* is not null and greater than 0, and Job.findAll({hasEquity: false})
\* returns every job, as the call without the key does.
HasEquityFollowsValue ==
  (ret.op = "Job.findAll" /\ Keys(ret.args.params) = <<"hasEquity">>) =>
    /\ ret.status = "ok"
    /\ Range(ret.val.rows) =
         IF ret.args.params[1].v = Bool(TRUE)
         THEN {j \in jobs : j.equity # Null /\ Thousandths(j.equity) > 0}
         ELSE jobs

\* C20: Job.findAll({minSalary: m}) returns exactly the jobs whose salary is
\* at least m, and a successful Company.findAll with minEmployees a and/or
\* maxEmployees b exactly the companies that have at least a and at most b
\* employees: a row that sits on a bound is returned.
RangeBoundsInclusive ==
  /\ (ret.op = "Job.findAll" /\ Keys(ret.args.params) = <<"minSalary">>) =>
       /\ ret.status = "ok"
       /\ Range(ret.val.rows) =
            {j \in jobs : j.salary >= Numeric(ret.args.params[1].v)}
  /\ (/\ ret.op = "Company.findAll"
      /\ ret.status = "ok"
      /\ ret.args.params # <<>>
      /\ Range(Keys(ret.args.params)) \subseteq {"minEmployees", "maxEmployees"}) =>
       Range(ret.val.rows) =
         {c \in companies :
            \A i \in DOMAIN ret.args.params :
              IF ret.args.params[i].k = "minEmployees"
              THEN c.num_employees >= Numeric(ret.args.params[i].v)
              ELSE c.num_employees <= Numeric(ret.args.params[i].v)}

\* C21: isAdmin passes UnauthorizedError to next for every request that is
\* not an admin's, a request without an authenticated user included, and
\* passes on without an error only for a user whose isAdmin is true;
\* sameUserOrAdmin passes UnauthorizedError unless the user is an admin or
\* has the route's username.
AdminChecksUnauthorized ==
  /\ ret.op = "isAdmin" =>
       ret.error = IF ret.user.present /\ ret.user.isAdmin THEN "none"
                   ELSE "UnauthorizedError"
  /\ ret.op = "sameUserOrAdmin" =>
       ret.error = IF /\ ret.user.present
                      /\ ret.user.isAdmin \/ ret.user.username = ret.args.username
                   THEN "none"
                   ELSE "UnauthorizedError"

\* the text jwt.verify is handed for a header
HeaderToken(authHeader) ==
  IF authHeader.scheme \in {"Bearer ", "bearer ", ""} THEN authHeader.token
  ELSE "unverifiable"

\* C22: authenticateJWT calls next once and without an error for every
\* request; res.locals.user is the token's payload when the header carries a
\* token that verifies, and is left unset when the header is missing or its
\* token does not verify.
AuthenticateNeverFails ==
  ret.op = "authenticateJWT" =>
    /\ ret.error = "none"
    /\ ret.nextCalls = 1
    /\ ret.user =
         IF /\ ret.args.authHeader # NoHeader
            /\ HeaderToken(ret.args.authHeader) \in {"u1Token", "u2Token", "adminToken"}
         THEN Payloads[ret.args.authHeader.token]
         ELSE NoUser

\* a header whose token does not verify was passed on without a user
AuthenticateNeverFailsWitness ==
  /\ ret.op = "authenticateJWT"
  /\ ret.args.authHeader.scheme = "Bearer "
  /\ ret.args.authHeader.token = "invalid"
  /\ ret.user = NoUser
  /\ ret.error = "none"

\* C23: the SQL text sqlForPartialUpdate returns does not depend on the
\* payload's values: every payload with the same keys in the same order gets,
\* under the same mapping, the setCols of the call made, and the values of the
\* call made are returned in its values list, in key order.
SetColsIgnoreValues ==
  (IsSqlCall /\ ret.status = "ok") =>
    /\ \A other \in SqlPayloads :
         Keys(other) = Keys(ret.args.data) =>
           sqlForPartialUpdate(other, ret.args.jsToSql).setCols = ret.val.setCols
    /\ ret.val.values = Values(ret.args.data)

\* a payload has been formatted that shares its keys with a payload of
\* other values
SetColsIgnoreValuesWitness ==
  /\ IsSqlCall
  /\ ret.status = "ok"
  /\ Keys(ret.args.data) = <<"age", "firstName">>
  /\ ret.args.data[1].v = 32
  /\ \E other \in SqlPayloads :
       /\ Keys(other) = Keys(ret.args.data)
       /\ other[1].v = 21
       /\ other[2].v # ret.args.data[2].v

\* C24: Company.findAll given recognized keys only, and at most one of the
\* two bounds or a minimum numerically less than or equal to the maximum, does
\* not fail, whether the values are integers or decimal strings.
RangeAccepted ==
  (/\ ret.op = "Company.findAll"
   /\ UnknownAt = {}
   /\ \/ ~HasKey(ret.args.params, "minEmployees")
      \/ ~HasKey(ret.args.params, "maxEmployees")
      \/ Numeric(Get(ret.args.params, "minEmployees"))
           <= Numeric(Get(ret.args.params, "maxEmployees"))) =>
    ret.status = "ok"

\* C25: no two stored jobs have the same title, after any sequence of
\* sequential Job.create, Job.update and Job.remove calls on a table that
\* began with distinct titles.
TitlesUnique == \A j1, j2 \in jobs : j1.title = j2.title => j1 = j2

\* C26: the column named for a payload key is the mapping's entry for the key
\* when the mapping has one and the key itself when it has none, in every
\* helper call and in the statement of every update; the statement of a
\* Job.update or Company.update with a payload of n keys selects its row by
\* the placeholder n + 1 and passes the key value last, after the n values.
ColumnMappingAndSelector ==
  LET Mapped(jsToSql, key) == IF key \in DOMAIN jsToSql THEN jsToSql[key] ELSE key
      Named(setCols, data, jsToSql) ==
        \A i \in DOMAIN data : setCols[2 * i - 1].col = Mapped(jsToSql, data[i].k)
  IN /\ (IsSqlCall /\ Len(ret.args.data) > 0) =>
          /\ ret.status = "ok"
          /\ Named(ret.val.setCols, ret.args.data, ret.args.jsToSql)
     /\ (ret.op \in {"Job.update", "Company.update"} /\ Len(ret.args.data) > 0) =>
          LET n == Len(ret.args.data)
              key == IF ret.op = "Job.update" THEN ret.args.jobId
                     ELSE ret.args.handle
          IN /\ ret.queries = 1
             /\ Named(ret.sql.setCols, ret.args.data,
                      IF ret.op = "Job.update" THEN JobJsToSql ELSE CompanyJsToSql)
             /\ ret.sql.wherePh = n + 1
             /\ Len(ret.sql.params) = n + 1
             /\ ret.sql.params[n + 1] = key
             /\ \A i \in 1..n : ret.sql.params[i] = ret.args.data[i].v

====
